---- MODULE Spec2Model ----
(***************************************************************************)
(* A model of the NewsBotAI pipeline: the concurrent scraper               *)
(* (scraper.py), its extractors and quality filter, the on-disk snapshots, *)
(* the processing stage with enrichment (process_articles.py), the         *)
(* clustering engine (utils/clustering.py) and the highlight ranker        *)
(* (highlights.py).                                                        *)
(* Each component has its own specification over the shared variables;     *)
(* the variables of the other components stay at their idle values.        *)
(***************************************************************************)
EXTENDS Integers, Sequences, FiniteSets, TLC

VARIABLES
    \* ---- scraper.py: NewsScraperPipeline.run_pipeline / scrape_category
    tasks,          \* run_pipeline: the (source_key, category) task list
    max_workers,    \* run_pipeline: size of the thread pool
    taskPc,         \* per task: position of its scrape_category call
    article_links,  \* per task: the local list article_links
    linkIdx,        \* per task: position of the for-loop over article_links
    articles,       \* per task: the local result list articles
    scraped_urls,   \* self.scraped_urls, shared by every task
    collected,      \* futures already yielded by as_completed
    all_articles,   \* run_pipeline: the aggregated result
    pipelinePc,     \* position of run_pipeline itself
    fetchLog,       \* history: the article-page requests issued so far
    \* ---- scraper.py: NewsScraperPipeline.filter_articles
    filterInput,        \* the argument articles
    filterIdx,          \* position of the for-loop over articles
    filtered_articles,  \* the local result list filtered_articles
    filterPc,           \* "loop" or "done"
    \* ---- utils/clustering.py: cluster_articles
    corpus,         \* the argument articles (dicts, mutated in place)
    cosSim,         \* util.cos_sim of the embeddings of two contents, in 1/100
    clusters,       \* the local list clusters (lists of 1-based indices)
    assigned,       \* the local set assigned
    seedIdx,        \* position of the outer loop (i, 1-based)
    clusterPc,      \* "seeding", "done"
    \* ---- highlights.py: get_highlights
    enrichedFile,   \* data/articles_enriched.json (DATA_PATH)
    hlCategory,     \* the argument category of the last call
    hlTopK,         \* the argument top_k of the last call
    hlResult,       \* what the last call returned or raised
    hlPc,           \* "ready", "returned" after the first call, then "repeated"
    \* ---- the raw snapshot: scraper.py main/save_articles and
    \* ---- process_articles.py main/load_articles
    rawFile,        \* data/articles.json
    saveInput,      \* scraper.py main: filtered_articles handed to save_articles
    savePc,         \* scraper.py main: "filtered" before the save, then "saved"
    procResult,     \* process_articles.py: what load_articles returned or raised
    procPc,         \* process_articles.py main: its position, from "ready" on
    \* ---- process_articles.py: enrich_articles and the rest of main
    enrichInput,    \* the argument articles, as they were when it was called
    enrichIdx,      \* position of the for-loop over articles
    enriched,       \* the local result list enriched
    classifierCalls, \* history: the classify_article calls made, with their result
    summarizerFailures, \* history: positions whose summarizer request raised
    enrichPc,       \* "loop", then "returned"
    stageRuns,      \* history: how often main has been started
    enrichedWrites, \* history: writes of OUTPUT_PATH by the current run of main
    filesAtStart,   \* history: both snapshot files when the current run started
    \* ---- highlights.py: keyword_score
    ksText,         \* the argument text
    ksScore,        \* the returned score
    ksPc,           \* "ready", then "scored"
    \* ---- scraper.py: extract_article_content / _extract_guardian_content
    extractor,      \* which of the two extractors runs
    pageTitle,      \* the local title, after clean_text
    pageContentLen, \* len(content) of the local content, after clean_text
    extractResult,  \* what the extractor returned
    extractPc       \* "parsed", then "returned"

scrapeVars == <<tasks, max_workers, taskPc, article_links, linkIdx, articles,
                scraped_urls, collected, all_articles, pipelinePc, fetchLog>>

filterVars == <<filterInput, filterIdx, filtered_articles, filterPc>>

clusterVars == <<corpus, cosSim, clusters, assigned, seedIdx, clusterPc>>

hlVars == <<enrichedFile, hlCategory, hlTopK, hlResult, hlPc>>

snapVars == <<rawFile, saveInput, savePc, procResult, procPc>>

enrichVars == <<enrichInput, enrichIdx, enriched, classifierCalls,
                summarizerFailures, enrichPc, stageRuns, enrichedWrites,
                filesAtStart>>

ksVars == <<ksText, ksScore, ksPc>>

extractVars == <<extractor, pageTitle, pageContentLen, extractResult, extractPc>>

vars == <<scrapeVars, filterVars, clusterVars, hlVars, snapVars, enrichVars,
          ksVars, extractVars>>

\* What each component leaves alone.
nonScrapeVars == <<filterVars, clusterVars, hlVars, snapVars, enrichVars,
                   ksVars, extractVars>>

nonFilterVars == <<scrapeVars, clusterVars, hlVars, snapVars, enrichVars,
                   ksVars, extractVars>>

nonClusterVars == <<scrapeVars, filterVars, hlVars, snapVars, enrichVars,
                    ksVars, extractVars>>

nonHlVars == <<scrapeVars, filterVars, clusterVars, snapVars, enrichVars,
               ksVars, extractVars>>

nonSnapVars == <<scrapeVars, filterVars, clusterVars, hlVars, enrichVars,
                 ksVars, extractVars>>

nonEnrichVars == <<scrapeVars, filterVars, clusterVars, hlVars, snapVars,
                   ksVars, extractVars>>

nonKsVars == <<scrapeVars, filterVars, clusterVars, hlVars, snapVars,
               enrichVars, extractVars>>

nonExtractVars == <<scrapeVars, filterVars, clusterVars, hlVars, snapVars,
                    enrichVars, ksVars>>

\* The values a component's variables keep while another component runs.
ScrapeIdle ==
    /\ tasks = <<>>
    /\ max_workers = 1
    /\ taskPc = <<>>
    /\ article_links = <<>>
    /\ linkIdx = <<>>
    /\ articles = <<>>
    /\ scraped_urls = {}
    /\ collected = {}
    /\ all_articles = <<>>
    /\ pipelinePc = "idle"
    /\ fetchLog = {}

FilterIdle ==
    /\ filterInput = <<>>
    /\ filterIdx = 1
    /\ filtered_articles = <<>>
    /\ filterPc = "idle"

ClusterIdle ==
    /\ corpus = <<>>
    /\ cosSim = <<>>
    /\ clusters = <<>>
    /\ assigned = {}
    /\ seedIdx = 1
    /\ clusterPc = "idle"

\* A file that does not exist.
NoFile == [exists |-> FALSE]

\* A file holding the JSON value data.
FileOf(data) == [exists |-> TRUE, data |-> data]

HighlightsIdle ==
    /\ enrichedFile = NoFile
    /\ hlCategory = ""
    /\ hlTopK = 0
    /\ hlResult = <<>>
    /\ hlPc = "idle"

SnapshotIdle ==
    /\ rawFile = NoFile
    /\ saveInput = <<>>
    /\ savePc = "idle"
    /\ procResult = <<>>
    /\ procPc = "idle"

EnrichIdle ==
    /\ enrichInput = <<>>
    /\ enrichIdx = 1
    /\ enriched = <<>>
    /\ classifierCalls = {}
    /\ summarizerFailures = {}
    /\ enrichPc = "idle"
    /\ stageRuns = 0
    /\ enrichedWrites = 0
    /\ filesAtStart = <<>>

KeywordIdle ==
    /\ ksText = <<>>
    /\ ksScore = 0
    /\ ksPc = "idle"

ExtractIdle ==
    /\ extractor = ""
    /\ pageTitle = <<>>
    /\ pageContentLen = 0
    /\ extractResult = <<>>
    /\ extractPc = "idle"

-----------------------------------------------------------------------------
(* Generic helpers on sequences.                                           *)

Range(s) == {s[i] : i \in DOMAIN s}

RECURSIVE SeqsUpTo(_, _)
\* All sequences over S of length at most n.
SeqsUpTo(S, n) ==
    IF n = 0 THEN {<<>>}
    ELSE LET shorter == SeqsUpTo(S, n - 1)
         IN  shorter \cup {Append(s, x) : s \in {q \in shorter : Len(q) = n - 1}, x \in S}

NoDuplicates(s) == \A i, j \in DOMAIN s : i # j => s[i] # s[j]

-----------------------------------------------------------------------------
(* scraper.py: configuration and inputs of the fetch stage.                *)

\* self.sources: the categories each configured source has a listing URL for.
SourceCategories ==
    [ smh          |-> {"sports", "lifestyle", "music", "finance"},
      news_com_au  |-> {"sports", "lifestyle", "music", "finance"},
      seven_news   |-> {"sports", "lifestyle", "music", "finance"},
      the_guardian |-> {"sports", "lifestyle", "music", "finance"} ]

\* self.sources[key]['name']
SourceName ==
    [ smh          |-> "Sydney Morning Herald",
      news_com_au  |-> "News.com.au",
      seven_news   |-> "7News",
      the_guardian |-> "The Guardian" ]

\* Largest thread pool the model gives run_pipeline.
MaxWorkers == 2

\* extract_article_links: at most this many links per listing page.
MaxLinksPerListing == 20

\* Number of distinct article URLs the modelled sites serve.
NumUrls == 2

Urls == 1..NumUrls

\* extract_article_links returns list(set(links))[:20]: a duplicate-free list
\* of at most 20 links.  The model lists the links of a page in one fixed
\* (ascending) order.
LinkLists ==
    {s \in SeqsUpTo(Urls, NumUrls) :
        /\ Len(s) <= MaxLinksPerListing
        /\ \A i, j \in DOMAIN s : i < j => s[i] < s[j]}

\* The (sources, categories) arguments run_pipeline is called with.
PipelineInputs ==
    { [sources |-> <<"the_guardian">>,          categories |-> <<"sports", "finance">>],
      [sources |-> <<"smh", "the_guardian">>,   categories |-> <<"sports">>],
      [sources |-> <<"smh", "unknown_source">>, categories |-> <<"sports", "politics">>] }

RECURSIVE CategoryTasks(_, _, _)
\* run_pipeline, inner loop: the tasks of one source, in category order.
CategoryTasks(source_key, categories, k) ==
    IF k > Len(categories) THEN <<>>
    ELSE (IF categories[k] \in SourceCategories[source_key]
          THEN <<[source_key |-> source_key, category |-> categories[k]]>>
          ELSE <<>>)
         \o CategoryTasks(source_key, categories, k + 1)

RECURSIVE BuildTasks(_, _, _)
\* run_pipeline, outer loop: unknown source keys and categories are skipped.
BuildTasks(sources, categories, k) ==
    IF k > Len(sources) THEN <<>>
    ELSE (IF sources[k] \in DOMAIN SourceCategories
          THEN CategoryTasks(sources[k], categories, 1)
          ELSE <<>>)
         \o BuildTasks(sources, categories, k + 1)

\* scrape_guardian_article / scrape_generic_article: the Article built from a
\* page whose extraction passed the title/content test.  title, author,
\* published and content are functions of the page and are left out.
Article(link, category, source_name) ==
    [url |-> link, topic |-> category, source |-> source_name]

\* scrape_category: which extractor a source uses decides the source field.
ArticleSource(source_key) ==
    IF source_key = "the_guardian" THEN "The Guardian" ELSE SourceName[source_key]

\* What fetching and extracting one article page can do:
\*   ok          an Article is returned
\*   fetch_fail  fetch_page caught an exception and returned None
\*   parse_error the extractor's try block raised; caught, None returned
\*   discarded   title/content test failed, None returned
PageOutcomes == {"ok", "fetch_fail", "parse_error", "discarded"}

\* What fetching a listing page can do:
\*   ok          links extracted
\*   fetch_fail  fetch_page returned None, scrape_category returns []
\*   parse_error extract_article_links raised out of scrape_category
ListingOutcomes == {"ok", "fetch_fail", "parse_error"}

RunningPcs == {"start", "check", "add", "scrape"}

FinishedPcs == {"returned", "raised"}

TaskIds == DOMAIN tasks

CurrentLink(t) == article_links[t][linkIdx[t]]

-----------------------------------------------------------------------------
(* scraper.py: run_pipeline and scrape_category as a state machine.        *)

ScrapeInit ==
    /\ \E inp \in PipelineInputs : tasks = BuildTasks(inp.sources, inp.categories, 1)
    /\ max_workers \in 1..MaxWorkers
    /\ taskPc = [t \in DOMAIN tasks |-> "queued"]
    /\ article_links = [t \in DOMAIN tasks |-> <<>>]
    /\ linkIdx = [t \in DOMAIN tasks |-> 1]
    /\ articles = [t \in DOMAIN tasks |-> <<>>]
    /\ scraped_urls = {}
    /\ collected = {}
    /\ all_articles = <<>>
    /\ pipelinePc = "collecting"
    /\ fetchLog = {}

\* ThreadPoolExecutor: a free worker takes the oldest queued task.
StartTask(t) ==
    /\ taskPc[t] = "queued"
    /\ \A s \in TaskIds : s < t => taskPc[s] # "queued"
    /\ Cardinality({s \in TaskIds : taskPc[s] \in RunningPcs}) < max_workers
    /\ taskPc' = [taskPc EXCEPT ![t] = "start"]
    /\ UNCHANGED <<tasks, max_workers, article_links, linkIdx, articles,
                   scraped_urls, collected, all_articles, pipelinePc, fetchLog>>
    /\ UNCHANGED nonScrapeVars

\* scrape_category up to the for-loop: fetch the listing, extract the links.
FetchListing(t) ==
    /\ taskPc[t] = "start"
    /\ \E outcome \in ListingOutcomes :
          \/ /\ outcome = "fetch_fail"
             /\ taskPc' = [taskPc EXCEPT ![t] = "returned"]
             /\ UNCHANGED article_links
          \/ /\ outcome = "parse_error"
             /\ taskPc' = [taskPc EXCEPT ![t] = "raised"]
             /\ UNCHANGED article_links
          \/ /\ outcome = "ok"
             /\ \E links \in LinkLists :
                   article_links' = [article_links EXCEPT ![t] = links]
             /\ taskPc' = [taskPc EXCEPT ![t] = "check"]
    /\ UNCHANGED <<tasks, max_workers, linkIdx, articles, scraped_urls,
                   collected, all_articles, pipelinePc, fetchLog>>
    /\ UNCHANGED nonScrapeVars

\* for link in article_links: if link in self.scraped_urls: continue
CheckSeen(t) ==
    /\ taskPc[t] = "check"
    /\ linkIdx[t] <= Len(article_links[t])
    /\ IF CurrentLink(t) \in scraped_urls
       THEN /\ linkIdx' = [linkIdx EXCEPT ![t] = @ + 1]
            /\ UNCHANGED taskPc
       ELSE /\ taskPc' = [taskPc EXCEPT ![t] = "add"]
            /\ UNCHANGED linkIdx
    /\ UNCHANGED <<tasks, max_workers, article_links, articles, scraped_urls,
                   collected, all_articles, pipelinePc, fetchLog>>
    /\ UNCHANGED nonScrapeVars

\* self.scraped_urls.add(link)
MarkSeen(t) ==
    /\ taskPc[t] = "add"
    /\ scraped_urls' = scraped_urls \cup {CurrentLink(t)}
    /\ taskPc' = [taskPc EXCEPT ![t] = "scrape"]
    /\ UNCHANGED <<tasks, max_workers, article_links, linkIdx, articles,
                   collected, all_articles, pipelinePc, fetchLog>>
    /\ UNCHANGED nonScrapeVars

\* A page failure that escapes the extractor and ends the task.
ScrapeArticleAborting(t) ==
    /\ taskPc[t] = "scrape"
    /\ \E outcome \in PageOutcomes :
          /\ fetchLog' = fetchLog \cup
                {[task |-> t, url |-> CurrentLink(t), outcome |-> outcome]}
          /\ IF outcome = "ok"
             THEN /\ articles' = [articles EXCEPT ![t] =
                        Append(@, Article(CurrentLink(t), tasks[t].category,
                                          ArticleSource(tasks[t].source_key)))]
                  /\ linkIdx' = [linkIdx EXCEPT ![t] = @ + 1]
                  /\ taskPc' = [taskPc EXCEPT ![t] = "check"]
             ELSE /\ taskPc' = [taskPc EXCEPT ![t] = "raised"]
                  /\ UNCHANGED <<articles, linkIdx>>
    /\ UNCHANGED <<tasks, max_workers, article_links, scraped_urls, collected,
                   all_articles, pipelinePc>>
    /\ UNCHANGED nonScrapeVars

\* scrape_guardian_article / scrape_generic_article, the append and the
\* sleep: every failure is caught inside and gives None for this link only.
ScrapeArticle(t) ==
    /\ taskPc[t] = "scrape"
    /\ \E outcome \in PageOutcomes :
          /\ fetchLog' = fetchLog \cup
                {[task |-> t, url |-> CurrentLink(t), outcome |-> outcome]}
          /\ articles' = [articles EXCEPT ![t] =
                IF outcome = "ok"
                THEN Append(@, Article(CurrentLink(t), tasks[t].category,
                                       ArticleSource(tasks[t].source_key)))
                ELSE @]
    /\ linkIdx' = [linkIdx EXCEPT ![t] = @ + 1]
    /\ taskPc' = [taskPc EXCEPT ![t] = "check"]
    /\ UNCHANGED <<tasks, max_workers, article_links, scraped_urls, collected,
                   all_articles, pipelinePc>>
    /\ UNCHANGED nonScrapeVars

\* return articles, once the for-loop is exhausted
ReturnArticles(t) ==
    /\ taskPc[t] = "check"
    /\ linkIdx[t] > Len(article_links[t])
    /\ taskPc' = [taskPc EXCEPT ![t] = "returned"]
    /\ UNCHANGED <<tasks, max_workers, article_links, linkIdx, articles,
                   scraped_urls, collected, all_articles, pipelinePc, fetchLog>>
    /\ UNCHANGED nonScrapeVars

\* run_pipeline: one iteration of `for future in as_completed(...)`.
CollectFuture(t) ==
    /\ pipelinePc = "collecting"
    /\ t \notin collected
    /\ taskPc[t] \in FinishedPcs
    /\ collected' = collected \cup {t}
    /\ all_articles' = IF taskPc[t] = "returned"
                       THEN all_articles \o articles[t]
                       ELSE all_articles
    /\ UNCHANGED <<tasks, max_workers, taskPc, article_links, linkIdx, articles,
                   scraped_urls, pipelinePc, fetchLog>>
    /\ UNCHANGED nonScrapeVars

\* run_pipeline: return all_articles
ReturnAllArticles ==
    /\ pipelinePc = "collecting"
    /\ collected = TaskIds
    /\ pipelinePc' = "done"
    /\ UNCHANGED <<tasks, max_workers, taskPc, article_links, linkIdx, articles,
                   scraped_urls, collected, all_articles, fetchLog>>
    /\ UNCHANGED nonScrapeVars

ScrapeNext ==
    \/ \E t \in TaskIds : StartTask(t)
    \/ \E t \in TaskIds : FetchListing(t)
    \/ \E t \in TaskIds : CheckSeen(t)
    \/ \E t \in TaskIds : MarkSeen(t)
    \/ \E t \in TaskIds : ScrapeArticle(t)
    \/ \E t \in TaskIds : ReturnArticles(t)
    \/ \E t \in TaskIds : CollectFuture(t)
    \/ ReturnAllArticles

-----------------------------------------------------------------------------
(* Claims about the fetch stage.                                           *)

\* Number of article-page requests issued for url u in this run.
FetchCount(u) == Cardinality({r \in fetchLog : r.url = u})

\* The (task, url) pairs whose page gave an Article.
Extracted == {r \in fetchLog : r.outcome = "ok"}

\* C1: in every interleaving of the scrape_category tasks of one run_pipeline
\* call, the aggregated output holds at most one Article per URL.
C1_AtMostOneArticlePerUrl ==
    \A i, j \in DOMAIN all_articles :
        i # j => all_articles[i].url # all_articles[j].url

\* C2: the membership test and the mark-as-seen of a link are one atomic step
\* with respect to the other tasks, so each article URL's page is fetched at
\* most once in a run, whether or not the fetch succeeds.
C2_EachUrlFetchedAtMostOnce ==
    \A u \in Urls : FetchCount(u) <= 1

\* C10: a failing page never aborts the batch.  When run_pipeline has
\* returned, every task has run to its end, a task whose listing was read has
\* gone through all of its links, a task's result holds exactly the Articles
\* of its successful pages in link order, and the aggregated output holds
\* exactly the Articles of the successful pages of all tasks.
C10_FailuresNeverAbortBatch ==
    pipelinePc = "done" =>
        /\ \A t \in TaskIds : taskPc[t] \in FinishedPcs
        /\ \A t \in TaskIds :
              taskPc[t] = "returned" => linkIdx[t] = Len(article_links[t]) + 1
        /\ \A r \in Extracted :
              \E i \in DOMAIN all_articles :
                  all_articles[i] = Article(r.url, tasks[r.task].category,
                                            ArticleSource(tasks[r.task].source_key))
        /\ Len(all_articles) = Cardinality(Extracted)

\* C10 witness: run_pipeline returned although one task lost its listing page
\* and another had a failing article page followed by a successful one.
C10_Witness ==
    /\ pipelinePc = "done"
    /\ \E t \in TaskIds : taskPc[t] = "raised" \/ article_links[t] = <<>>
    /\ \E t \in TaskIds :
          /\ Len(article_links[t]) = 2
          /\ [task |-> t, url |-> article_links[t][1], outcome |-> "fetch_fail"] \in fetchLog
          /\ [task |-> t, url |-> article_links[t][2], outcome |-> "ok"] \in fetchLog
          /\ \E i \in DOMAIN all_articles : all_articles[i].url = article_links[t][2]

-----------------------------------------------------------------------------
(* Text helpers.  A text is a sequence of one-character strings.           *)

UpperChars == <<"A", "B", "C", "D", "E", "F", "G", "H", "I", "J", "K", "L", "M",
                "N", "O", "P", "Q", "R", "S", "T", "U", "V", "W", "X", "Y", "Z">>

LowerChars == <<"a", "b", "c", "d", "e", "f", "g", "h", "i", "j", "k", "l", "m",
                "n", "o", "p", "q", "r", "s", "t", "u", "v", "w", "x", "y", "z">>

Digits == {"0", "1", "2", "3", "4", "5", "6", "7", "8", "9"}

Whitespace == {" ", "\t", "\n"}

LowerChar(c) ==
    IF \E i \in DOMAIN UpperChars : UpperChars[i] = c
    THEN LowerChars[CHOOSE i \in DOMAIN UpperChars : UpperChars[i] = c]
    ELSE c

\* str.lower()
Lower(text) == [i \in DOMAIN text |-> LowerChar(text[i])]

\* sub in text (Python's substring test)
Contains(text, sub) ==
    \E i \in 0..(Len(text) - Len(sub)) :
        \A k \in 1..Len(sub) : text[i + k] = sub[k]

RECURSIVE SplitFrom(_, _, _)
\* str.split() from position i on, cur being the word read so far: the words
\* between runs of whitespace, no empty word.
SplitFrom(text, i, cur) ==
    IF i > Len(text)
    THEN (IF cur = <<>> THEN <<>> ELSE <<cur>>)
    ELSE IF text[i] \in Whitespace
         THEN (IF cur = <<>> THEN <<>> ELSE <<cur>>) \o SplitFrom(text, i + 1, <<>>)
         ELSE SplitFrom(text, i + 1, Append(cur, text[i]))

\* str.split()
Split(text) == SplitFrom(text, 1, <<>>)

-----------------------------------------------------------------------------
(* scraper.py: filter_articles and similarity.                             *)

\* filter_articles: articles with less content than this are skipped.
MinFilterContentLen == 200

\* filter_articles: the duplicate threshold 0.8, as the fraction 4/5.
DuplicateThresholdNum == 4

DuplicateThresholdDen == 5

\* filter_articles: generic_titles
generic_titles ==
    << <<"b", "r", "e", "a", "k", "i", "n", "g">>,
       <<"l", "i", "v", "e", " ", "u", "p", "d", "a", "t", "e", "s">>,
       <<"w", "a", "t", "c", "h">>,
       <<"v", "i", "d", "e", "o">> >>

\* similarity: len(intersection) / len(union) as the fraction <<num, den>>,
\* 0.0 (<<0, 1>>) when either word set is empty.
similarity(text1, text2) ==
    LET words1 == Range(Split(Lower(text1)))
        words2 == Range(Split(Lower(text2)))
    IN  IF words1 = {} \/ words2 = {}
        THEN <<0, 1>>
        ELSE <<Cardinality(words1 \cap words2), Cardinality(words1 \cup words2)>>

\* similarity(...) > 0.8
ExceedsDuplicateThreshold(sim) ==
    sim[1] * DuplicateThresholdDen > DuplicateThresholdNum * sim[2]

\* A duplicate test that looks only at the article accepted last.
IsDuplicateOfLast(article, accepted) ==
    /\ accepted # <<>>
    /\ ExceedsDuplicateThreshold(similarity(article.title, accepted[Len(accepted)].title))

\* filter_articles: the inner loop setting is_duplicate.
IsDuplicate(article, accepted) ==
    \E k \in DOMAIN accepted :
        ExceedsDuplicateThreshold(similarity(article.title, accepted[k].title))

\* A quality test that looks for the generic titles in the title as written.
IsLowQualityCaseSensitive(article) ==
    \/ article.content_len < MinFilterContentLen
    \/ \E g \in DOMAIN generic_titles : Contains(article.title, generic_titles[g])

\* filter_articles: whether one article is skipped by the two title-free tests.
IsLowQuality(article) ==
    \/ article.content_len < MinFilterContentLen
    \/ \E g \in DOMAIN generic_titles : Contains(Lower(article.title), generic_titles[g])

\* Longest corpus handed to filter_articles in the model.
MaxFilterCorpus == 4

\* Titles of the modelled corpus.  run_pipeline only returns Articles with a
\* non-empty, stripped title.
TitleFive  == <<"a", " ", "b", " ", "c", " ", "d", " ", "e">>

TitleSix   == <<"a", " ", "b", " ", "c", " ", "d", " ", "e", " ", "f">>

TitleFour  == <<"a", " ", "b", " ", "c", " ", "d">>

TitleCased == <<"E", " ", " ", "d", " ", "C", "\t", "b", " ", "A">>

TitleWatch == <<"W", "a", "t", "c", "h", " ", "a">>

FilterTitles == {TitleFive, TitleSix, TitleFour, TitleCased, TitleWatch}

\* An Article as filter_articles reads it: its title and len(content).
FilterArticleOf(title, content_len) == [title |-> title, content_len |-> content_len]

\* The articles of the modelled corpus: every title with enough content,
\* and two articles just below the content minimum.
FilterPalette ==
    {FilterArticleOf(t, MinFilterContentLen) : t \in FilterTitles}
        \cup {FilterArticleOf(TitleFive, MinFilterContentLen - 1),
              FilterArticleOf(TitleFour, MinFilterContentLen - 1)}

FilterInit ==
    /\ filterInput \in SeqsUpTo(FilterPalette, MaxFilterCorpus)
    /\ filterIdx = 1
    /\ filtered_articles = <<>>
    /\ filterPc = "loop"

\* One iteration of `for article in articles`.
FilterArticle ==
    /\ filterPc = "loop"
    /\ filterIdx <= Len(filterInput)
    /\ LET article == filterInput[filterIdx]
       IN  filtered_articles' =
              IF IsLowQuality(article) \/ IsDuplicate(article, filtered_articles)
              THEN filtered_articles
              ELSE Append(filtered_articles, article)
    /\ filterIdx' = filterIdx + 1
    /\ UNCHANGED <<filterInput, filterPc>>
    /\ UNCHANGED nonFilterVars

\* return filtered_articles
FilterReturn ==
    /\ filterPc = "loop"
    /\ filterIdx > Len(filterInput)
    /\ filterPc' = "done"
    /\ UNCHANGED <<filterInput, filterIdx, filtered_articles>>
    /\ UNCHANGED nonFilterVars

FilterNext ==
    \/ FilterArticle
    \/ FilterReturn

-----------------------------------------------------------------------------
(* Claims about the quality filter.                                        *)

\* The word set of a title: lower-cased, split on whitespace.
TitleTokens(title) == Range(Split(Lower(title)))

\* Jaccard similarity of two titles' word sets above 0.8 = 4/5.
JaccardAboveFourFifths(title1, title2) ==
    5 * Cardinality(TitleTokens(title1) \cap TitleTokens(title2))
        > 4 * Cardinality(TitleTokens(title1) \cup TitleTokens(title2))

\* C4: the output of filter_articles holds no article with content length
\* below 200 and no two articles whose title word sets have Jaccard similarity
\* above 0.8.
C4_FilterOutputClean ==
    filterPc = "done" =>
        /\ \A i \in DOMAIN filtered_articles : filtered_articles[i].content_len >= 200
        /\ \A i, j \in DOMAIN filtered_articles :
              i # j => ~JaccardAboveFourFifths(filtered_articles[i].title,
                                               filtered_articles[j].title)

\* C4 witness: the filter finished having dropped a short article and a
\* near-duplicate title (5 of 6 words shared) and kept a title at exactly 0.8.
C4_Witness ==
    /\ filterPc = "done"
    /\ \E i \in DOMAIN filterInput : filterInput[i].content_len < 200
    /\ \E i, j \in DOMAIN filterInput :
          /\ i < j
          /\ filterInput[i] = [title |-> TitleFive, content_len |-> 200]
          /\ filterInput[j] = [title |-> TitleSix, content_len |-> 200]
    /\ \E i, j \in DOMAIN filtered_articles :
          /\ filtered_articles[i].title = TitleFive
          /\ filtered_articles[j].title = TitleFour

\* The title holds one of the generic titles, in any case.
HasBlocklistedTitle(article) ==
    \E g \in DOMAIN generic_titles : Contains(Lower(article.title), generic_titles[g])

RECURSIVE StatedAccepted(_)
\* The positions among the first n input articles that the stated rule
\* accepts: enough content, no generic title, and a title with Jaccard
\* similarity at most 0.8 to every title accepted before.
StatedAccepted(n) ==
    IF n = 0 THEN {}
    ELSE LET before == StatedAccepted(n - 1)
         IN  IF /\ filterInput[n].content_len >= 200
                /\ ~HasBlocklistedTitle(filterInput[n])
                /\ \A j \in before :
                      ~JaccardAboveFourFifths(filterInput[n].title, filterInput[j].title)
             THEN before \cup {n}
             ELSE before

\* The k-th smallest element of a set of positions.
NthOf(positions, k) ==
    CHOOSE i \in positions : Cardinality({j \in positions : j < i}) = k - 1

\* C16: filter_articles is a greedy single pass that keeps the input order:
\* after each iteration, and at its return, the accepted list is the input
\* restricted to the positions the stated rule accepts (content length at
\* least 200, no generic title, Jaccard similarity at most 0.8 to every
\* title accepted before), so the first of several near-duplicate titles is
\* the one kept.
C16_FilterIsGreedySubsequence ==
    filterPc \in {"loop", "done"} =>
        LET accepted == StatedAccepted(filterIdx - 1)
        IN  /\ Len(filtered_articles) = Cardinality(accepted)
            /\ \A k \in DOMAIN filtered_articles :
                  filtered_articles[k] = filterInput[NthOf(accepted, k)]
            /\ filterPc = "done" => filterIdx = Len(filterInput) + 1

\* The filter finished on an input of a generic title, a title, a near
\* duplicate of it and a different title: it kept the second and the fourth.
C16_Witness ==
    /\ filterPc = "done"
    /\ Len(filterInput) = 4
    /\ filterInput[1].title = TitleWatch
    /\ filterInput[2] = FilterArticleOf(TitleSix, 200)
    /\ filterInput[3] = FilterArticleOf(TitleFive, 200)
    /\ filterInput[4] = FilterArticleOf(TitleFour, 200)
    /\ filtered_articles = <<filterInput[2], filterInput[4]>>

-----------------------------------------------------------------------------
(* utils/clustering.py: cluster_articles.                                  *)

\* cluster_articles: similarity_threshold = 0.82, in 1/100.
SimilarityThreshold == 82

\* Cosine similarity of a vector with itself, in 1/100.
SelfSimilarity == 100

\* Article contents of the modelled corpus; the embedding is a function of
\* the content alone (embed_articles encodes a["content"]).
Contents == {"c1", "c2", "c3"}

ClusterTopics == {"sports", "finance"}

\* Cosine similarities two different contents may have: just below the
\* threshold and exactly at it.
SimLevels == {SimilarityThreshold - 1, SimilarityThreshold}

\* Longest corpus handed to cluster_articles in the model.
MaxClusterCorpus == 3

\* The similarity tables of the embedding collaborator: symmetric, and a
\* content is fully similar to itself.
SimTables ==
    {f \in [Contents \X Contents -> SimLevels \cup {SelfSimilarity}] :
        \A c, d \in Contents :
            /\ f[<<c, c>>] = SelfSimilarity
            /\ f[<<c, d>>] = f[<<d, c>>]
            /\ c # d => f[<<c, d>>] \in SimLevels}

\* float(util.cos_sim(emb, embeddings[j])) for the articles at i and j
CosSim(i, j) == cosSim[<<corpus[i].content, corpus[j].content>>]

RECURSIVE InnerLoop(_, _, _)
\* for j in range(i + 1, len(embeddings)): the indices appended to the
\* cluster of seed i from position j on, given the set assigned.
InnerLoop(i, j, asg) ==
    IF j > Len(corpus) THEN <<>>
    ELSE IF j \in asg THEN InnerLoop(i, j + 1, asg)
    ELSE IF CosSim(i, j) >= SimilarityThreshold
         THEN <<j>> \o InnerLoop(i, j + 1, asg \cup {j})
         ELSE InnerLoop(i, j + 1, asg)

\* An inner loop that never looks at the set assigned.
OpenClusterIgnoringAssigned(i, asg) == <<i>> \o InnerLoop(i, i + 1, {})

\* An inner loop that starts one article too late.
OpenClusterSkippingNext(i, asg) == <<i>> \o InnerLoop(i, i + 2, asg)

RECURSIVE ChainLoop(_, _, _)
\* An inner loop that compares article j with every member the cluster has
\* so far, not with the seed alone.
ChainLoop(cluster, j, asg) ==
    IF j > Len(corpus) THEN cluster
    ELSE IF j \in asg THEN ChainLoop(cluster, j + 1, asg)
    ELSE IF \E k \in DOMAIN cluster : CosSim(cluster[k], j) >= SimilarityThreshold
         THEN ChainLoop(Append(cluster, j), j + 1, asg \cup {j})
         ELSE ChainLoop(cluster, j + 1, asg)

OpenClusterChaining(i, asg) == ChainLoop(<<i>>, i + 1, asg)

\* cluster = [i] followed by the inner loop
OpenCluster(i, asg) == <<i>> \o InnerLoop(i, i + 1, asg)

\* The 0-based id the last loop leaves on the article at idx: the clusters
\* are enumerated in order, so a later cluster holding idx overwrites.
LastClusterIdOf(idx) ==
    (CHOOSE k \in DOMAIN clusters :
        /\ idx \in Range(clusters[k])
        /\ \A m \in DOMAIN clusters : idx \in Range(clusters[m]) => m <= k) - 1

ClusterInit ==
    /\ corpus \in SeqsUpTo([content : Contents, topic : ClusterTopics], MaxClusterCorpus)
    /\ cosSim \in SimTables
    /\ clusters = <<>>
    /\ assigned = {}
    /\ seedIdx = 1
    /\ clusterPc = "seeding"

\* One iteration of `for i, emb in enumerate(embeddings)`.
ClusterSeed ==
    /\ clusterPc = "seeding"
    /\ seedIdx <= Len(corpus)
    /\ IF seedIdx \in assigned
       THEN UNCHANGED <<clusters, assigned>>
       ELSE LET cluster == OpenCluster(seedIdx, assigned)
            IN  /\ clusters' = Append(clusters, cluster)
                /\ assigned' = assigned \cup Range(cluster)
    /\ seedIdx' = seedIdx + 1
    /\ UNCHANGED <<corpus, cosSim, clusterPc>>
    /\ UNCHANGED nonClusterVars

\* The loop assigning articles[idx]["cluster_id"], and return articles.
AssignClusterIds ==
    /\ clusterPc = "seeding"
    /\ seedIdx > Len(corpus)
    /\ corpus' = [idx \in DOMAIN corpus |->
          IF \E k \in DOMAIN clusters : idx \in Range(clusters[k])
          THEN [f \in DOMAIN corpus[idx] \cup {"cluster_id"} |->
                   IF f = "cluster_id" THEN LastClusterIdOf(idx) ELSE corpus[idx][f]]
          ELSE corpus[idx]]
    /\ clusterPc' = "done"
    /\ UNCHANGED <<cosSim, clusters, assigned, seedIdx>>
    /\ UNCHANGED nonClusterVars

ClusterNext ==
    \/ ClusterSeed
    \/ AssignClusterIds

-----------------------------------------------------------------------------
(* Claims about the clustering engine.                                     *)

HasClusterId(a) == "cluster_id" \in DOMAIN a

\* C3: after cluster_articles the clusters partition the corpus: every
\* article has exactly one cluster_id, every article is a member of exactly
\* one cluster, which is the one its cluster_id names, and no cluster lists
\* an article twice.
C3_ClustersPartitionCorpus ==
    clusterPc = "done" =>
        /\ \A idx \in DOMAIN corpus :
              /\ HasClusterId(corpus[idx])
              /\ corpus[idx].cluster_id \in 0..(Len(clusters) - 1)
              /\ \A k \in DOMAIN clusters :
                    idx \in Range(clusters[k]) <=> corpus[idx].cluster_id = k - 1
        /\ \A k \in DOMAIN clusters : NoDuplicates(clusters[k])

\* C3 witness: a finished run with several clusters, one of which has a
\* member that is also similar to the seed of a later cluster.
C3_Witness ==
    /\ clusterPc = "done"
    /\ Len(clusters) >= 2
    /\ \E k, m \in DOMAIN clusters :
          /\ k < m
          /\ Len(clusters[k]) >= 2
          /\ \E idx \in Range(clusters[k]) :
                /\ idx > clusters[m][1]
                /\ CosSim(clusters[m][1], idx) >= SimilarityThreshold

\* C9: articles with identical content get the same cluster_id, whatever
\* their topics and positions; a corpus of three identical-content articles
\* gives exactly one cluster holding all three.
C9_IdenticalContentSameCluster ==
    clusterPc = "done" =>
        /\ \A i, j \in DOMAIN corpus :
              corpus[i].content = corpus[j].content
                  => /\ HasClusterId(corpus[i])
                     /\ HasClusterId(corpus[j])
                     /\ corpus[i].cluster_id = corpus[j].cluster_id
        /\ (Len(corpus) = 3 /\ \A i, j \in DOMAIN corpus : corpus[i].content = corpus[j].content)
              => clusters = << <<1, 2, 3>> >>

\* C9 witness: three identical-content articles with differing topics ended
\* in one cluster.
C9_Witness ==
    /\ clusterPc = "done"
    /\ Len(corpus) = 3
    /\ \A i, j \in DOMAIN corpus : corpus[i].content = corpus[j].content
    /\ corpus[1].topic # corpus[2].topic
    /\ clusters = << <<1, 2, 3>> >>

\* C9 witness for positions: two identical-content articles separated by a
\* different article that seeds its own cluster share a cluster_id.
C9_WitnessApart ==
    /\ clusterPc = "done"
    /\ Len(corpus) = 3
    /\ corpus[1].content = corpus[3].content
    /\ corpus[2].content # corpus[1].content
    /\ corpus[1].cluster_id = corpus[3].cluster_id
    /\ corpus[2].cluster_id # corpus[1].cluster_id

\* The seed of the k-th cluster opened.
SeedOf(k) == clusters[k][1]

\* C14: the seed of each cluster is its lowest-index member, the cluster's
\* id is the number of clusters opened before it, every non-seed member is
\* at least threshold-similar to its cluster's seed and to no seed opened
\* earlier, and any two seeds are less than threshold-similar; similarity
\* between non-seed members plays no part.
C14_SingleSeedGreedy ==
    clusterPc = "done" =>
        \A k \in DOMAIN clusters :
            /\ \A idx \in Range(clusters[k]) :
                  /\ SeedOf(k) <= idx
                  /\ corpus[idx].cluster_id = k - 1
                  /\ idx # SeedOf(k) =>
                        /\ CosSim(SeedOf(k), idx) >= SimilarityThreshold
                        /\ \A m \in 1..(k - 1) :
                              CosSim(SeedOf(m), idx) < SimilarityThreshold
            /\ \A m \in DOMAIN clusters :
                  m # k => CosSim(SeedOf(m), SeedOf(k)) < SimilarityThreshold

\* A finished run in which two members of one cluster are less than
\* threshold-similar to each other.
C14_Witness ==
    /\ clusterPc = "done"
    /\ \E k \in DOMAIN clusters :
          \E i, j \in Range(clusters[k]) :
              /\ i # j
              /\ CosSim(i, j) < SimilarityThreshold

\* A finished run in which a non-seed member is threshold-similar to an
\* article that seeds a later cluster.
C14_WitnessNoChaining ==
    /\ clusterPc = "done"
    /\ \E k, m \in DOMAIN clusters :
          /\ k < m
          /\ \E idx \in Range(clusters[k]) :
                /\ idx # SeedOf(k)
                /\ CosSim(idx, SeedOf(m)) >= SimilarityThreshold

-----------------------------------------------------------------------------
(* highlights.py: keyword_score and get_highlights.                        *)

\* KEYWORDS, in the dict's order
KEYWORDS ==
    << [word |-> <<"b", "r", "e", "a", "k", "i", "n", "g">>, weight |-> 3],
       [word |-> <<"u", "p", "d", "a", "t", "e">>, weight |-> 2],
       [word |-> <<"e", "x", "c", "l", "u", "s", "i", "v", "e">>, weight |-> 2],
       [word |-> <<"a", "l", "e", "r", "t">>, weight |-> 2],
       [word |-> <<"w", "a", "r", "n", "i", "n", "g">>, weight |-> 1],
       [word |-> <<"m", "a", "j", "o", "r">>, weight |-> 1],
       [word |-> <<"e", "m", "e", "r", "g", "e", "n", "c", "y">>, weight |-> 1],
       [word |-> <<"h", "i", "g", "h", "l", "i", "g", "h", "t", "s">>, weight |-> 1] >>

\* The characters the regex class \w matches.
WordChars == Range(UpperChars) \cup Range(LowerChars) \cup Digits \cup {"_"}

\* A search that accepts the word anywhere, also inside a longer word.
SearchAnywhere(word, text) == Contains(text, word)

\* re.search(rf"\b{word}\b", text): word occurs with no word character next
\* to it on either side (word itself starts and ends with a word character).
SearchWholeWord(word, text) ==
    \E i \in 0..(Len(text) - Len(word)) :
        /\ \A k \in 1..Len(word) : text[i + k] = word[k]
        /\ i = 0 \/ text[i] \notin WordChars
        /\ i + Len(word) = Len(text) \/ text[i + Len(word) + 1] \notin WordChars

RECURSIVE KeywordSum(_, _)
\* keyword_score: the loop over KEYWORDS.items() from entry k on.
KeywordSum(text, k) ==
    IF k > Len(KEYWORDS) THEN 0
    ELSE (IF SearchWholeWord(KEYWORDS[k].word, text) THEN KEYWORDS[k].weight ELSE 0)
         + KeywordSum(text, k + 1)

keyword_score(text) == KeywordSum(Lower(text), 1)

\* The prefix get_highlights removes from a summary.
SummaryBoilerplate ==
    <<"H", "e", "r", "e", " ", "i", "s", " ", "a", " ", "2", "-",
      "3", " ", "s", "e", "n", "t", "e", "n", "c", "e", " ", "s",
      "u", "m", "m", "a", "r", "y", " ", "o", "f", " ", "t", "h",
      "e", " ", "n", "e", "w", "s", " ", "a", "r", "t", "i", "c",
      "l", "e", ":">>

RECURSIVE ReplaceFrom(_, _, _)
\* str.replace(sub, ""): text from position i on, every occurrence of sub
\* removed, scanning left to right.
ReplaceFrom(text, sub, i) ==
    IF i > Len(text) THEN <<>>
    ELSE IF /\ i + Len(sub) - 1 <= Len(text)
            /\ \A k \in 1..Len(sub) : text[i + k - 1] = sub[k]
         THEN ReplaceFrom(text, sub, i + Len(sub))
         ELSE <<text[i]>> \o ReplaceFrom(text, sub, i + 1)

\* str.strip()
Strip(text) ==
    LET keep == {i \in DOMAIN text : text[i] \notin Whitespace}
    IN  IF keep = {} THEN <<>>
        ELSE LET first == CHOOSE i \in keep : \A j \in keep : i <= j
                 last  == CHOOSE i \in keep : \A j \in keep : j <= i
             IN  SubSeq(text, first, last)

\* representative["summary"].replace("Here is ...:", "").strip()
CleanSummary(summary) == Strip(ReplaceFrom(summary, SummaryBoilerplate, 1))

\* A Python value whose type matters: an int or a str.
PyInt(n) == [int |-> n]

PyStr(x) == [str |-> x]

\* article.get("cluster_id", -1)
ClusterIdOf(a) == IF "cluster_id" \in DOMAIN a THEN a.cluster_id ELSE -1

\* A filter that keeps the articles of every topic.
FilterByTopicKeepingAll(arts, category) == arts

\* filtered = [a for a in articles if a.get("topic") == category]
FilterByTopic(arts, category) == SelectSeq(arts, LAMBDA a : a.topic = category)

RECURSIVE GroupIdsFrom(_, _, _)
\* The keys of the defaultdict cluster_articles in insertion order: the
\* cluster ids of filtered in order of first appearance.
GroupIdsFrom(filtered, i, seen) ==
    IF i > Len(filtered) THEN <<>>
    ELSE IF ClusterIdOf(filtered[i]) \in seen
         THEN GroupIdsFrom(filtered, i + 1, seen)
         ELSE <<ClusterIdOf(filtered[i])>>
              \o GroupIdsFrom(filtered, i + 1, seen \cup {ClusterIdOf(filtered[i])})

\* cluster_articles[cluster_id]: the members in order of appearance
GroupMembers(filtered, cluster_id) ==
    SelectSeq(filtered, LAMBDA a : ClusterIdOf(a) = cluster_id)

\* A maximum that keeps the last of several longest summaries.
LastLongestSummary(members) ==
    members[CHOOSE i \in DOMAIN members :
        /\ \A j \in DOMAIN members : Len(members[j].summary) <= Len(members[i].summary)
        /\ \A j \in DOMAIN members :
              Len(members[j].summary) = Len(members[i].summary) => j <= i]

\* max(articles, key=lambda x: len(x.get("summary", ""))): Python's max
\* returns the first of several maximal items.
LongestSummary(members) ==
    members[CHOOSE i \in DOMAIN members :
        /\ \A j \in DOMAIN members : Len(members[j].summary) <= Len(members[i].summary)
        /\ \A j \in DOMAIN members :
              Len(members[j].summary) = Len(members[i].summary) => i <= j]

\* The dict appended to highlights for one group.  author and
\* published_date are copied from the representative and are left out.
Highlight(cluster_id, members) ==
    LET representative == LongestSummary(members)
    IN  [cluster_id  |-> cluster_id,
         score       |-> keyword_score(representative.title) + Len(members),
         frequency   |-> PyStr(representative.source),
         title       |-> representative.title,
         summary     |-> CleanSummary(representative.summary),
         source_urls |-> [i \in DOMAIN members |-> members[i].url]]

RECURSIVE InsertByScore(_, _, _)
\* Insert h into the score-descending list sorted, behind every item whose
\* score is at least h's (before them when behindEqual is FALSE).
InsertByScore(sorted, h, behindEqual) ==
    IF sorted = <<>> THEN <<h>>
    ELSE IF \/ Head(sorted).score > h.score
            \/ (behindEqual /\ Head(sorted).score = h.score)
         THEN <<Head(sorted)>> \o InsertByScore(Tail(sorted), h, behindEqual)
         ELSE <<h>> \o sorted

RECURSIVE SortFrom(_, _, _, _)
SortFrom(hs, i, sorted, behindEqual) ==
    IF i > Len(hs) THEN sorted
    ELSE SortFrom(hs, i + 1, InsertByScore(sorted, hs[i], behindEqual), behindEqual)

\* A descending sort that reverses the order of items of equal score.
SortByScoreReversingTies(hs) == SortFrom(hs, 1, <<>>, FALSE)

\* highlights.sort(key=lambda x: x["score"], reverse=True): list.sort is
\* stable, also with reverse=True.
SortByScore(hs) == SortFrom(hs, 1, <<>>, TRUE)

\* highlights[:top_k] for top_k >= 0
Take(hs, top_k) == SubSeq(hs, 1, IF top_k < Len(hs) THEN top_k ELSE Len(hs))

\* get_highlights after load_articles
RankHighlights(arts, category, top_k) ==
    LET filtered == FilterByTopic(arts, category)
        ids      == GroupIdsFrom(filtered, 1, {})
        highlights == [g \in DOMAIN ids |-> Highlight(ids[g], GroupMembers(filtered, ids[g]))]
    IN  Take(SortByScore(highlights), top_k)

\* get_highlights: load_articles raises when DATA_PATH does not exist.
get_highlights(file, category, top_k) ==
    IF ~file.exists
    THEN [status |-> "FileNotFoundError"]
    ELSE [status |-> "ok", highlights |-> RankHighlights(file.data, category, top_k)]

\* Longest enriched corpus of the model.
MaxHlCorpus == 3

\* Largest result limit of the model.
MaxTopK == 2

HlTitlePlain == <<"M", "a", "r", "k", "e", "t", "s">>

HlTitleUpdate ==
    <<"M", "a", "j", "o", "r", " ", "U", "P", "D", "A", "T", "E", ":", " ",
      "u", "p", "d", "a", "t", "e", "d", " ", "u", "p", "d", "a", "t", "e">>

HlSummaryShort == <<"a", ".">>

HlSummaryLong == <<" ", "a", "b", ".">>

\* What an enriched article is made of, apart from its url and cluster_id.
HlShapes ==
    { [topic |-> t, title |-> x.title, summary |-> x.summary, source |-> x.source] :
        t \in {"finance", "sports"},
        x \in { [title |-> HlTitlePlain,  summary |-> HlSummaryShort, source |-> "7News"],
                [title |-> HlTitlePlain,  summary |-> HlSummaryLong,  source |-> "The Guardian"],
                [title |-> HlTitleUpdate, summary |-> HlSummaryShort, source |-> "7News"] } }

\* The topics get_highlights is asked for; no modelled article is "music".
HlCategories == {"finance", "music"}

\* cluster_articles numbers the clusters in order of their first member:
\* the first article has id 0 and an id is at most one above those before.
ClusterIdLists(n) ==
    {c \in [1..n -> 0..(n - 1)] :
        \A i \in 1..n : \A k \in 0..(c[i] - 1) : \E j \in 1..(i - 1) : c[j] = k}

\* The enriched corpus of the given shapes and cluster ids: article i has url i.
EnrichedCorpus(shapes, c) ==
    [i \in 1..Len(shapes) |->
        [topic |-> shapes[i].topic, title |-> shapes[i].title,
         summary |-> shapes[i].summary, source |-> shapes[i].source,
         url |-> i, cluster_id |-> c[i]]]

HighlightsInit ==
    /\ \/ enrichedFile = NoFile
       \/ \E shapes \in SeqsUpTo(HlShapes, MaxHlCorpus) :
             \E c \in ClusterIdLists(Len(shapes)) :
                enrichedFile = FileOf(EnrichedCorpus(shapes, c))
    /\ hlCategory = ""
    /\ hlTopK = 0
    /\ hlResult = <<>>
    /\ hlPc = "ready"

\* The first call get_highlights(category, top_k).
GetHighlights ==
    /\ hlPc = "ready"
    /\ \E category \in HlCategories, top_k \in 0..MaxTopK :
          /\ hlCategory' = category
          /\ hlTopK' = top_k
          /\ hlResult' = get_highlights(enrichedFile, category, top_k)
    /\ hlPc' = "returned"
    /\ UNCHANGED enrichedFile
    /\ UNCHANGED nonHlVars

\* A further call that also writes the articles of the requested topic back
\* to DATA_PATH.
RepeatGetHighlightsSavingFiltered ==
    /\ hlPc \in {"returned", "repeated"}
    /\ hlResult' = get_highlights(enrichedFile, hlCategory, hlTopK)
    /\ enrichedFile' = IF enrichedFile.exists
                       THEN FileOf(FilterByTopic(enrichedFile.data, hlCategory))
                       ELSE enrichedFile
    /\ hlPc' = "repeated"
    /\ UNCHANGED <<hlCategory, hlTopK>>
    /\ UNCHANGED nonHlVars

\* A further call with the arguments of the call before.
RepeatGetHighlights ==
    /\ hlPc \in {"returned", "repeated"}
    /\ hlResult' = get_highlights(enrichedFile, hlCategory, hlTopK)
    /\ hlPc' = "repeated"
    /\ UNCHANGED <<enrichedFile, hlCategory, hlTopK>>
    /\ UNCHANGED nonHlVars

HighlightsNext ==
    \/ GetHighlights
    \/ RepeatGetHighlights

-----------------------------------------------------------------------------
(* Claims about the highlight ranker.                                      *)

\* The last call ran on an existing enriched corpus and returned.
HlReturned == hlPc = "returned" /\ enrichedFile.exists

\* Positions in the persisted corpus of the articles of the requested topic
\* that carry cluster id cid.
TopicMembers(cid) ==
    {i \in DOMAIN enrichedFile.data :
        /\ enrichedFile.data[i].topic = hlCategory
        /\ enrichedFile.data[i].cluster_id = cid}

\* Position at which the group of cluster cid is discovered.
FirstMember(cid) == CHOOSE i \in TopicMembers(cid) : \A j \in TopicMembers(cid) : i <= j

\* C5: every Highlight's "frequency" is the member count of its group: the
\* number of articles of the requested topic with the highlight's
\* cluster_id, which is the length of its source URL list.
C5_FrequencyIsMemberCount ==
    HlReturned =>
        \A g \in DOMAIN hlResult.highlights :
            LET h == hlResult.highlights[g]
            IN  /\ h.frequency = PyInt(Cardinality(TopicMembers(h.cluster_id)))
                /\ h.frequency = PyInt(Len(h.source_urls))

\* C7: get_highlights returns at most limit highlights, in non-increasing
\* score order, groups of equal score in discovery order; with no article
\* of the requested topic it returns the empty list and raises nothing.
C7_AtMostLimitSortedStable ==
    HlReturned =>
        /\ hlResult.status = "ok"
        /\ Len(hlResult.highlights) <= hlTopK
        /\ \A g, k \in DOMAIN hlResult.highlights :
              g < k =>
                 LET hg == hlResult.highlights[g]
                     hk == hlResult.highlights[k]
                 IN  /\ hg.score >= hk.score
                     /\ hg.score = hk.score
                           => FirstMember(hg.cluster_id) < FirstMember(hk.cluster_id)
        /\ (\A i \in DOMAIN enrichedFile.data : enrichedFile.data[i].topic # hlCategory)
              => hlResult.highlights = <<>>

\* C7 witness: a call returned two highlights of equal score in discovery
\* order although the limit cut a third group off.
C7_Witness ==
    /\ HlReturned
    /\ hlTopK = 2
    /\ Len(hlResult.highlights) = 2
    /\ hlResult.highlights[1].score = hlResult.highlights[2].score
    /\ Cardinality({enrichedFile.data[i].cluster_id : i \in
          {j \in DOMAIN enrichedFile.data : enrichedFile.data[j].topic = hlCategory}}) = 3

\* C7 witness for the empty case: the corpus has articles, none of the
\* requested topic, and the call returned the empty list.
C7_WitnessEmpty ==
    /\ HlReturned
    /\ hlTopK > 0
    /\ enrichedFile.data # <<>>
    /\ \A i \in DOMAIN enrichedFile.data : enrichedFile.data[i].topic # hlCategory
    /\ hlResult = [status |-> "ok", highlights |-> <<>>]

\* C8: the representative of each group is the member with the longest
\* synopsis, also when it comes later than shorter ones; among members of
\* equal maximal length it is the earliest.
C8_RepresentativeLongestSynopsis ==
    HlReturned =>
        \A g \in DOMAIN hlResult.highlights :
            LET h == hlResult.highlights[g]
                members == TopicMembers(h.cluster_id)
                SummaryLen(i) == Len(enrichedFile.data[i].summary)
            IN  \E r \in members :
                    /\ h.title = enrichedFile.data[r].title
                    /\ h.summary = CleanSummary(enrichedFile.data[r].summary)
                    /\ \A m \in members :
                          \/ SummaryLen(m) < SummaryLen(r)
                          \/ (SummaryLen(m) = SummaryLen(r) /\ r <= m)

\* C8 witness: a group whose longest synopsis is not on its first member,
\* with two later members sharing the maximal length.
C8_Witness ==
    /\ HlReturned
    /\ Len(enrichedFile.data) = 3
    /\ \A i \in 1..3 : /\ enrichedFile.data[i].topic = hlCategory
                       /\ enrichedFile.data[i].cluster_id = 0
    /\ enrichedFile.data[1].summary = HlSummaryShort
    /\ enrichedFile.data[2].summary = HlSummaryLong
    /\ enrichedFile.data[3].summary = HlSummaryLong
    /\ Len(hlResult.highlights) = 1
    /\ hlResult.highlights[1].summary = CleanSummary(HlSummaryLong)

-----------------------------------------------------------------------------
(* The raw snapshot: scraper.py save_articles, process_articles.py         *)
(* load_articles.                                                          *)

\* A JSON array (a Python list) and a JSON object (a Python dict, as its
\* key/value entries in order).
JsonArray(items) == [kind |-> "array", items |-> items]

JsonObject(entries) == [kind |-> "object", entries |-> entries]

\* scraper.py save_articles: json.dump([asdict(article) for article in
\* articles]) writes one JSON array of the articles' field dicts.
SavedSnapshot(arts) == FileOf(JsonArray(arts))

RECURSIVE FlattenEntries(_, _)
\* process_articles.py load_articles: the loop over data.items(), setting
\* article["topic"] = topic on every article of every entry.
FlattenEntries(entries, k) ==
    IF k > Len(entries) THEN <<>>
    ELSE [i \in DOMAIN entries[k].value |->
             [f \in DOMAIN entries[k].value[i] \cup {"topic"} |->
                 IF f = "topic" THEN entries[k].key ELSE entries[k].value[i][f]]]
         \o FlattenEntries(entries, k + 1)

\* process_articles.py load_articles: a missing file raises
\* FileNotFoundError, a list has no .items() and raises AttributeError.
load_articles(file) ==
    IF ~file.exists THEN [status |-> "FileNotFoundError"]
    ELSE IF file.data.kind # "object" THEN [status |-> "AttributeError"]
    ELSE [status |-> "ok", articles |-> FlattenEntries(file.data.entries, 1)]

\* Longest filtered corpus handed to save_articles in the model.
MaxSnapCorpus == 2

\* The Articles of the modelled filtered corpus.
SnapArticles ==
    {Article(u, c, "7News") : u \in {"https://7news.com.au/a", "https://7news.com.au/b"},
                              c \in {"sports", "finance"}}

\* What data/articles.json may hold before the scraper has saved: nothing,
\* or a topic-keyed mapping of lists (the other schema load_articles reads).
InitialRawFiles ==
    { NoFile,
      FileOf(JsonObject(<<>>)),
      FileOf(JsonObject(<< [key |-> "sports",
                            value |-> <<[url |-> "https://7news.com.au/a", source |-> "7News"]>>],
                           [key |-> "finance",
                            value |-> <<Article("https://7news.com.au/b", "music", "7News")>>] >>)) }

SnapshotInit ==
    /\ rawFile \in InitialRawFiles
    /\ saveInput \in SeqsUpTo(SnapArticles, MaxSnapCorpus)
    /\ savePc = "filtered"
    /\ procResult = <<>>
    /\ procPc = "ready"

\* scraper.py main: scraper.save_articles(filtered_articles)
SaveArticles ==
    /\ savePc = "filtered"
    /\ rawFile' = SavedSnapshot(saveInput)
    /\ savePc' = "saved"
    /\ UNCHANGED <<saveInput, procResult, procPc>>
    /\ UNCHANGED nonSnapVars

\* process_articles.py main: articles = load_articles()
LoadArticles ==
    /\ procPc = "ready"
    /\ procResult' = load_articles(rawFile)
    /\ procPc' = IF load_articles(rawFile).status = "ok" THEN "loaded" ELSE "failed"
    /\ UNCHANGED <<rawFile, saveInput, savePc>>
    /\ UNCHANGED nonSnapVars

SnapshotNext ==
    \/ SaveArticles
    \/ LoadArticles

NthMember(cid, k) ==
    CHOOSE i \in TopicMembers(cid) :
        Cardinality({j \in TopicMembers(cid) : j < i}) = k - 1

\* Position of the representative of the group of cluster cid: the first
\* member with the longest summary.
RepresentativeOf(cid) ==
    CHOOSE i \in TopicMembers(cid) :
        \A j \in TopicMembers(cid) :
            \/ Len(enrichedFile.data[j].summary) < Len(enrichedFile.data[i].summary)
            \/ /\ Len(enrichedFile.data[j].summary) = Len(enrichedFile.data[i].summary)
               /\ i <= j

\* C18: a highlight's score is keyword_score of its representative's title
\* plus the number of articles of the requested topic that carry its
\* cluster_id, and its source URL list holds exactly those articles' URLs:
\* articles of other topics in the same cluster add nothing to either.
C18_ScoreCountsSameTopicMembers ==
    HlReturned =>
        \A g \in DOMAIN hlResult.highlights :
            LET h == hlResult.highlights[g]
                group == TopicMembers(h.cluster_id)
            IN  /\ group # {}
                /\ h.score = keyword_score(enrichedFile.data[RepresentativeOf(h.cluster_id)].title)
                                + Cardinality(group)
                /\ Len(h.source_urls) = Cardinality(group)
                /\ \A k \in DOMAIN h.source_urls :
                      h.source_urls[k] = enrichedFile.data[NthMember(h.cluster_id, k)].url

\* A highlight of two same-topic members has been returned whose cluster
\* also holds an article of another topic, and whose representative's title
\* scores keywords.
C18_Witness ==
    /\ HlReturned
    /\ \E g \in DOMAIN hlResult.highlights :
          LET h == hlResult.highlights[g]
          IN  /\ Cardinality(TopicMembers(h.cluster_id)) = 2
              /\ h.score > 2
              /\ \E i \in DOMAIN enrichedFile.data :
                    /\ enrichedFile.data[i].cluster_id = h.cluster_id
                    /\ enrichedFile.data[i].topic # hlCategory

-----------------------------------------------------------------------------
(* Claims about the raw snapshot.                                          *)

\* C6: the snapshot written by save_articles is readable by
\* process_articles.load_articles: loading it returns the saved Article
\* records in the same order, each with its topic unchanged.
C6_SavedSnapshotLoadsBack ==
    [][(savePc = "saved" /\ procPc = "ready" /\ procPc' # "ready")
          => procResult' = [status |-> "ok", articles |-> saveInput]]_vars

-----------------------------------------------------------------------------
(* process_articles.py: enrich_articles, with utils/classification.py and  *)
(* utils/summarizer.py.  Topics and summaries are texts.                   *)

TopicSports == <<"s", "p", "o", "r", "t", "s">>

TopicLifestyle == <<"l", "i", "f", "e", "s", "t", "y", "l", "e">>

TopicMusic == <<"m", "u", "s", "i", "c">>

TopicFinance == <<"f", "i", "n", "a", "n", "c", "e">>

TopicUnknown == <<"u", "n", "k", "n", "o", "w", "n">>

\* process_articles.py: VALID_TOPICS
VALID_TOPICS == {TopicSports, TopicLifestyle, TopicMusic, TopicFinance}

\* dict.get(key, default)
Get(d, key, default) == IF key \in DOMAIN d THEN d[key] ELSE default

\* d[key] = value on a dict
SetItem(d, key, value) ==
    [f \in DOMAIN d \cup {key} |-> IF f = key THEN value ELSE d[f]]

\* What the chat-completion request of classify_article does.  Line 13 calls
\* openai.ChatCompletion.create, and the module binds no name openai (it
\* imports os, Groq and CATEGORY_PROMPT only): evaluating it raises
\* NameError inside the try block, whatever the article is.
ClassifierOutcomes == {[raised |-> TRUE]}

\* utils/classification.py classify_article, given what the request did.
classify_article(article_text, outcome) ==
    IF outcome.raised THEN TopicUnknown
    ELSE LET category == Strip(Lower(outcome.content))
         IN  IF category \in {TopicSports, TopicLifestyle, TopicMusic, TopicFinance}
             THEN category
             ELSE TopicUnknown

\* A synopsis as the summarizer model sends it, with surrounding whitespace.
SummaryReply == <<" ", "R", "a", "t", "e", "s", " ", "u", "p", ".", "\n">>

\* What the chat-completion request of summarize_article does: it raises,
\* or it returns a message.
SummarizerOutcomes ==
    {[raised |-> TRUE], [raised |-> FALSE, content |-> SummaryReply]}

\* A summarizer that hands the failure on as its result.
summarize_articlePassingFailure(article_text, outcome) ==
    IF outcome.raised THEN <<"E", "R", "R", "O", "R">> ELSE Strip(outcome.content)

\* utils/summarizer.py summarize_article, given what the request did.
summarize_article(article_text, outcome) ==
    IF outcome.raised THEN <<>> ELSE Strip(outcome.content)

\* enrich_articles lines 44-45: category = article.get("topic", "").lower()
\* and the test category not in VALID_TOPICS.
NeedsClassifier(article) == Lower(Get(article, "topic", <<>>)) \notin VALID_TOPICS

\* Longest corpus handed to enrich_articles in the model.
MaxEnrichCorpus == 2

TopicCapitalised == <<"S", "p", "o", "r", "t", "s">>

TopicPolitics == <<"p", "o", "l", "i", "t", "i", "c", "s">>

\* The article dicts of the modelled corpus: with a valid topic, with a
\* valid topic in another case, with a topic outside the set, with an empty
\* topic and with no topic key.
EnrichPalette ==
    {[content |-> c, topic |-> t] :
         c \in {"c1", "c2"},
         t \in {TopicFinance, TopicCapitalised, TopicPolitics, <<>>}}
    \cup {[content |-> c] : c \in {"c1", "c2"}}

EnrichInit ==
    /\ enrichInput \in SeqsUpTo(EnrichPalette, MaxEnrichCorpus)
    /\ enrichIdx = 1
    /\ enriched = <<>>
    /\ classifierCalls = {}
    /\ summarizerFailures = {}
    /\ enrichPc = "loop"
    /\ stageRuns = 0
    /\ enrichedWrites = 0
    /\ filesAtStart = <<>>

\* One iteration of `for article in tqdm(articles)`.
EnrichArticle ==
    /\ enrichPc = "loop"
    /\ enrichIdx <= Len(enrichInput)
    /\ \E co \in ClassifierOutcomes, so \in SummarizerOutcomes :
          LET article == enrichInput[enrichIdx]
              text == Get(article, "content", <<>>)
              label == classify_article(text, co)
              classified == IF NeedsClassifier(article)
                            THEN SetItem(article, "topic", label)
                            ELSE article
          IN  /\ enriched' = Append(enriched,
                     SetItem(classified, "summary", summarize_article(text, so)))
              /\ classifierCalls' =
                     IF NeedsClassifier(article)
                     THEN classifierCalls \cup
                            {[idx |-> enrichIdx, raised |-> co.raised, label |-> label]}
                     ELSE classifierCalls
              /\ summarizerFailures' =
                     IF so.raised THEN summarizerFailures \cup {enrichIdx}
                     ELSE summarizerFailures
    /\ enrichIdx' = enrichIdx + 1
    /\ UNCHANGED <<enrichInput, enrichPc, stageRuns, enrichedWrites, filesAtStart>>
    /\ UNCHANGED nonEnrichVars

\* A return that first saves the enriched articles to OUTPUT_PATH.
EnrichReturnSavingCheckpoint ==
    /\ enrichPc = "loop"
    /\ enrichIdx > Len(enrichInput)
    /\ enrichPc' = "returned"
    /\ enrichedFile' = FileOf(enriched)
    /\ enrichedWrites' = enrichedWrites + 1
    /\ UNCHANGED <<enrichInput, enrichIdx, enriched, classifierCalls,
                   summarizerFailures, stageRuns, filesAtStart>>
    /\ UNCHANGED <<hlCategory, hlTopK, hlResult, hlPc>>
    /\ UNCHANGED <<scrapeVars, filterVars, clusterVars, snapVars, ksVars, extractVars>>

\* return enriched
EnrichReturn ==
    /\ enrichPc = "loop"
    /\ enrichIdx > Len(enrichInput)
    /\ enrichPc' = "returned"
    /\ UNCHANGED <<enrichInput, enrichIdx, enriched, classifierCalls,
                   summarizerFailures, stageRuns, enrichedWrites, filesAtStart>>
    /\ UNCHANGED nonEnrichVars

EnrichNext ==
    \/ EnrichArticle
    \/ EnrichReturn

-----------------------------------------------------------------------------
(* Claims about enrich_articles.                                           *)

\* The classify_article calls made for the article at position i.
CallsFor(i) == {c \in classifierCalls : c.idx = i}

\* C11: whatever the classifier and summarizer requests do, enrich_articles
\* runs to its return and returns the input articles, one for one and in
\* input order, each with a topic and a summary: the other fields are
\* untouched, an article whose summarizer request raised has the empty
\* string as summary, and an article whose classifier request raised has
\* topic "unknown"; the other articles are not affected by those failures.
C11_EnrichReturnsEveryArticle ==
    /\ enrichPc = "loop" => ENABLED EnrichNext
    /\ enrichPc \in {"loop", "returned"} =>
          /\ Len(enriched) = enrichIdx - 1
          /\ \A i \in DOMAIN enriched :
                /\ DOMAIN enriched[i] = DOMAIN enrichInput[i] \cup {"topic", "summary"}
                /\ \A f \in DOMAIN enrichInput[i] \ {"topic", "summary"} :
                      enriched[i][f] = enrichInput[i][f]
                /\ enriched[i].topic # <<>>
                /\ i \in summarizerFailures => enriched[i].summary = <<>>
                /\ i \notin summarizerFailures => enriched[i].summary = Strip(SummaryReply)
                /\ (\E c \in CallsFor(i) : c.raised) => enriched[i].topic = TopicUnknown
                /\ CallsFor(i) = {} => enriched[i].topic = enrichInput[i].topic
    /\ enrichPc = "returned" => Len(enriched) = Len(enrichInput)

\* enrich_articles has returned two articles: the first one's classifier and
\* summarizer requests both raised, the second one's summarizer request
\* succeeded.
C11_Witness ==
    /\ enrichPc = "returned"
    /\ Len(enriched) = 2
    /\ 1 \in summarizerFailures
    /\ \E c \in CallsFor(1) : c.raised
    /\ enriched[1].topic = TopicUnknown
    /\ enriched[1].summary = <<>>
    /\ 2 \notin summarizerFailures
    /\ enriched[2].summary # <<>>

\* C15: the classifier is called for an article exactly when its topic is
\* missing or is not a member of VALID_TOPICS, the returned label then
\* replaces the stored topic, and after enrich_articles every stored topic
\* is a member of VALID_TOPICS or the label the classifier returned for it.
C15_ClassifierCalledIffTopicInvalid ==
    enrichPc = "returned" =>
       \A i \in DOMAIN enrichInput :
          /\ CallsFor(i) # {} <=>
                \/ "topic" \notin DOMAIN enrichInput[i]
                \/ enrichInput[i].topic \notin VALID_TOPICS
          /\ \A c \in CallsFor(i) : enriched[i].topic = c.label
          /\ \/ enriched[i].topic \in VALID_TOPICS
             \/ \E c \in CallsFor(i) : enriched[i].topic = c.label

-----------------------------------------------------------------------------
(* process_articles.py: main, the processing stage as a whole.             *)

\* Most runs of main in the model.
MaxStageRuns == 2

\* The article dicts of a raw snapshot.
RawArticles == {[content |-> c] : c \in {"c1", "c2"}}

\* What data/articles.json may hold when the stage starts: nothing, the flat
\* list scraper.py writes, or a topic-keyed mapping with one or two keys.
ProcessRawFiles ==
    {NoFile, SavedSnapshot(<<Article("https://7news.com.au/a", "sports", "7News")>>)}
    \cup {FileOf(JsonObject(<<[key |-> TopicFinance, value |-> arts]>>)) :
             arts \in SeqsUpTo(RawArticles, MaxEnrichCorpus)}
    \cup {FileOf(JsonObject(<<[key |-> TopicCapitalised, value |-> <<a>>],
                              [key |-> TopicPolitics, value |-> <<b>>]>>)) :
             a \in RawArticles, b \in RawArticles}

\* What data/articles_enriched.json may hold when the stage starts: nothing,
\* or the result of an earlier run.
ProcessEnrichedFiles ==
    {NoFile,
     FileOf(<<[content |-> "c3", topic |-> TopicMusic, summary |-> <<>>,
               cluster_id |-> 0]>>)}

ProcessInit ==
    /\ rawFile \in ProcessRawFiles
    /\ enrichedFile \in ProcessEnrichedFiles
    /\ saveInput = <<>>
    /\ savePc = "idle"
    /\ procResult = <<>>
    /\ procPc = "ready"
    /\ enrichInput = <<>>
    /\ enrichIdx = 1
    /\ enriched = <<>>
    /\ classifierCalls = {}
    /\ summarizerFailures = {}
    /\ enrichPc = "idle"
    /\ stageRuns = 1
    /\ enrichedWrites = 0
    /\ filesAtStart = <<rawFile, enrichedFile>>
    /\ hlCategory = ""
    /\ hlTopK = 0
    /\ hlResult = <<>>
    /\ hlPc = "idle"

\* main: enriched_articles = enrich_articles(articles), the call
CallEnrich ==
    /\ procPc = "loaded"
    /\ enrichInput' = procResult.articles
    /\ enrichIdx' = 1
    /\ enriched' = <<>>
    /\ classifierCalls' = {}
    /\ summarizerFailures' = {}
    /\ enrichPc' = "loop"
    /\ procPc' = "enriching"
    /\ UNCHANGED <<stageRuns, enrichedWrites, filesAtStart>>
    /\ UNCHANGED <<rawFile, saveInput, savePc, procResult>>
    /\ UNCHANGED <<scrapeVars, filterVars, clusterVars, hlVars, ksVars, extractVars>>

\* main: clustered_articles = cluster_articles(enriched_articles), the call;
\* the embedding collaborator fixes the similarities.
CallCluster ==
    /\ procPc = "enriching"
    /\ enrichPc = "returned"
    /\ corpus' = enriched
    /\ cosSim' \in SimTables
    /\ clusters' = <<>>
    /\ assigned' = {}
    /\ seedIdx' = 1
    /\ clusterPc' = "seeding"
    /\ procPc' = "clustering"
    /\ UNCHANGED <<rawFile, saveInput, savePc, procResult>>
    /\ UNCHANGED <<scrapeVars, filterVars, hlVars, enrichVars, ksVars, extractVars>>

\* main: save_articles(clustered_articles), which overwrites OUTPUT_PATH
\* with the JSON list of the article dicts.
SaveEnriched ==
    /\ procPc = "clustering"
    /\ clusterPc = "done"
    /\ enrichedFile' = FileOf(corpus)
    /\ enrichedWrites' = enrichedWrites + 1
    /\ procPc' = "saved"
    /\ UNCHANGED <<enrichInput, enrichIdx, enriched, classifierCalls,
                   summarizerFailures, enrichPc, stageRuns, filesAtStart>>
    /\ UNCHANGED <<hlCategory, hlTopK, hlResult, hlPc>>
    /\ UNCHANGED <<rawFile, saveInput, savePc, procResult>>
    /\ UNCHANGED <<scrapeVars, filterVars, clusterVars, ksVars, extractVars>>

\* The process dies after load_articles and before save_articles: during
\* enrichment or clustering.
Crash ==
    /\ procPc \in {"loaded", "enriching", "clustering"}
    /\ procPc' = "crashed"
    /\ UNCHANGED <<rawFile, saveInput, savePc, procResult>>
    /\ UNCHANGED nonSnapVars

\* main is started again: a new process, nothing of the last run in memory.
Rerun ==
    /\ procPc \in {"crashed", "failed", "saved"}
    /\ stageRuns < MaxStageRuns
    /\ stageRuns' = stageRuns + 1
    /\ procPc' = "ready"
    /\ procResult' = <<>>
    /\ enrichInput' = <<>>
    /\ enrichIdx' = 1
    /\ enriched' = <<>>
    /\ classifierCalls' = {}
    /\ summarizerFailures' = {}
    /\ enrichPc' = "idle"
    /\ enrichedWrites' = 0
    /\ filesAtStart' = <<rawFile, enrichedFile>>
    /\ corpus' = <<>>
    /\ cosSim' = <<>>
    /\ clusters' = <<>>
    /\ assigned' = {}
    /\ seedIdx' = 1
    /\ clusterPc' = "idle"
    /\ UNCHANGED <<rawFile, saveInput, savePc>>
    /\ UNCHANGED <<scrapeVars, filterVars, hlVars, ksVars, extractVars>>

ProcessNext ==
    \/ LoadArticles
    \/ CallEnrich
    \/ EnrichArticle
    \/ EnrichReturn
    \/ CallCluster
    \/ ClusterSeed
    \/ AssignClusterIds
    \/ SaveEnriched
    \/ Crash
    \/ Rerun

-----------------------------------------------------------------------------
(* Claims about the processing stage.                                      *)

\* C19: the stage never writes the raw snapshot; it writes the enriched
\* snapshot only in its last step, once per run, after enrich_articles has
\* returned and cluster_articles has numbered the whole loaded corpus; a
\* run that has crashed or failed has left both files as they were when it
\* started; and every run, a rerun too, enriches what load_articles reads
\* from the raw snapshot.
C19_EnrichedSnapshotWrittenOnceAtEnd ==
    [][/\ rawFile' = rawFile
       /\ (enrichedFile' # enrichedFile \/ enrichedWrites' > enrichedWrites) =>
             /\ procPc = "clustering" /\ procPc' = "saved"
             /\ enrichPc = "returned"
             /\ clusterPc = "done"
             /\ Len(corpus) = Len(load_articles(rawFile).articles)
             /\ \A i \in DOMAIN corpus : HasClusterId(corpus[i])
             /\ enrichedWrites = 0
             /\ enrichedWrites' = 1
             /\ enrichedFile' = FileOf(corpus)
       /\ procPc' = "saved" => enrichedWrites' = 1
       /\ procPc' \in {"crashed", "failed"} =>
             /\ enrichedWrites' = 0
             /\ <<rawFile', enrichedFile'>> = filesAtStart'
       /\ procPc' = "enriching" =>
             enrichInput' = load_articles(rawFile').articles]_vars

\* A second run has saved two articles after the first run crashed: the
\* enriched snapshot did not exist when the second run started.
C19_Witness ==
    /\ stageRuns = 2
    /\ procPc = "saved"
    /\ enrichedWrites = 1
    /\ filesAtStart[2] = NoFile
    /\ Len(enrichedFile.data) = 2

\* A run has crashed in the middle of enrichment, with an enriched snapshot
\* of an earlier run on disk.
C19_WitnessCrash ==
    /\ procPc = "crashed"
    /\ enrichPc = "loop"
    /\ enrichIdx = 2
    /\ Len(enrichInput) = 2
    /\ enrichedFile.exists
    /\ enrichedFile = filesAtStart[2]

-----------------------------------------------------------------------------
(* highlights.py: keyword_score on its own.                                *)

\* The words the modelled texts are made of: keywords in both cases, with
\* punctuation next to them, inside a longer word, and no keyword at all.
KsWords ==
    { <<"B", "R", "E", "A", "K", "I", "N", "G", ":">>,
      <<"m", "a", "r", "k", "e", "t">>,
      <<"u", "p", "d", "a", "t", "e">>,
      <<"b", "r", "e", "a", "k", "i", "n", "g">>,
      <<"u", "p", "d", "a", "t", "e", "d">>,
      <<"A", "l", "e", "r", "t", "-", "M", "a", "j", "o", "r">>,
      <<"x", "_", "a", "l", "e", "r", "t">> }

\* Most words of a modelled text.
MaxKsWords == 3

RECURSIVE JoinWords(_)
\* " ".join(words)
JoinWords(words) ==
    IF words = <<>> THEN <<>>
    ELSE IF Len(words) = 1 THEN words[1]
    ELSE words[1] \o <<" ">> \o JoinWords(Tail(words))

KeywordInit ==
    /\ ksText \in {JoinWords(words) : words \in SeqsUpTo(KsWords, MaxKsWords)}
    /\ ksScore = 0
    /\ ksPc = "ready"

\* One call keyword_score(text).
ScoreText ==
    /\ ksPc = "ready"
    /\ ksScore' = keyword_score(ksText)
    /\ ksPc' = "scored"
    /\ UNCHANGED ksText
    /\ UNCHANGED nonKsVars

KeywordNext ==
    \/ ScoreText

-----------------------------------------------------------------------------
(* Claims about keyword_score.                                             *)

\* The weights the claim states.
StatedWeights ==
    << [word |-> <<"b", "r", "e", "a", "k", "i", "n", "g">>, weight |-> 3],
       [word |-> <<"u", "p", "d", "a", "t", "e">>, weight |-> 2],
       [word |-> <<"e", "x", "c", "l", "u", "s", "i", "v", "e">>, weight |-> 2],
       [word |-> <<"a", "l", "e", "r", "t">>, weight |-> 2],
       [word |-> <<"w", "a", "r", "n", "i", "n", "g">>, weight |-> 1],
       [word |-> <<"m", "a", "j", "o", "r">>, weight |-> 1],
       [word |-> <<"e", "m", "e", "r", "g", "e", "n", "c", "y">>, weight |-> 1],
       [word |-> <<"h", "i", "g", "h", "l", "i", "g", "h", "t", "s">>, weight |-> 1] >>

\* The whole words of a text: its maximal runs of word characters.
WholeWords(text) ==
    {SubSeq(text, i, j) : <<i, j>> \in
        {p \in (DOMAIN text) \X (DOMAIN text) :
            /\ p[1] <= p[2]
            /\ \A k \in p[1]..p[2] : text[k] \in WordChars
            /\ p[1] = 1 \/ text[p[1] - 1] \notin WordChars
            /\ p[2] = Len(text) \/ text[p[2] + 1] \notin WordChars}}

RECURSIVE StatedSum(_, _)
\* Sum of the stated weights, from entry k on, of the keywords among words.
StatedSum(words, k) ==
    IF k > Len(StatedWeights) THEN 0
    ELSE (IF StatedWeights[k].word \in words THEN StatedWeights[k].weight ELSE 0)
         + StatedSum(words, k + 1)

BreakingMarketUpdate == <<"B", "R", "E", "A", "K", "I", "N", "G", ":", " ", "m", "a", "r", "k", "e", "t", " ", "u", "p", "d", "a", "t", "e">>

BreakingBreaking == <<"b", "r", "e", "a", "k", "i", "n", "g", " ", "b", "r", "e", "a", "k", "i", "n", "g">>

\* C12: keyword_score(text) is the sum of the stated weights over the
\* distinct keywords that are whole words of the lower-cased text, each
\* counted once; it is 5 for "BREAKING: market update" and 3 for
\* "breaking breaking".
C12_KeywordScoreIsWeightSum ==
    ksPc = "scored" =>
        /\ ksScore = StatedSum(WholeWords(Lower(ksText)), 1)
        /\ ksText = BreakingMarketUpdate => ksScore = 5
        /\ ksText = BreakingBreaking => ksScore = 3

\* "BREAKING: market update" has been scored 5.
C12_Witness ==
    /\ ksPc = "scored"
    /\ ksText = BreakingMarketUpdate
    /\ ksScore = 5

\* "breaking breaking updated" has been scored 3: the repeated keyword
\* counts once and "updated" does not count as "update".
C12_WitnessRepeated ==
    /\ ksPc = "scored"
    /\ ksText = BreakingBreaking \o <<" ">> \o <<"u", "p", "d", "a", "t", "e", "d">>
    /\ ksScore = 3

-----------------------------------------------------------------------------
(* scraper.py: the final test of scrape_generic_article and                *)
(* _scrape_guardian_article on the title and content they extracted.       *)

\* The length both extractors compare len(content) with.
MinExtractContentLen == 100

\* Longest extracted content of the model.
MaxExtractContentLen == 102

Extractors == {"generic", "guardian"}

\* The cleaned titles of the modelled pages; clean_text gives "" for a
\* missing or blank title element.
ExtractTitles == {<<>>, TitleFive, TitleWatch}

\* scrape_generic_article line 343: if title and content and len(content) > 100
GenericKeeps(title, content_len) ==
    /\ title # <<>>
    /\ content_len # 0
    /\ content_len > MinExtractContentLen

\* _scrape_guardian_article line 274: if title and content and len(content) > 100
GuardianKeeps(title, content_len) ==
    /\ title # <<>>
    /\ content_len # 0
    /\ content_len > MinExtractContentLen

\* Python's None
None == [kind |-> "None"]

\* The Article the extractor builds: its title, len(content) and source.
ExtractedArticle(title, content_len, source) ==
    [kind |-> "Article", title |-> title, content_len |-> content_len,
     source |-> source]

ExtractInit ==
    /\ extractor \in Extractors
    /\ pageTitle \in ExtractTitles
    /\ pageContentLen \in 0..MaxExtractContentLen
    /\ extractResult = <<>>
    /\ extractPc = "parsed"

\* The end of either extractor: return Article(...) or fall through to
\* return None.
ReturnExtraction ==
    /\ extractPc = "parsed"
    /\ extractResult' =
          IF extractor = "guardian"
          THEN (IF GuardianKeeps(pageTitle, pageContentLen)
                THEN ExtractedArticle(pageTitle, pageContentLen, "The Guardian")
                ELSE None)
          ELSE (IF GenericKeeps(pageTitle, pageContentLen)
                THEN ExtractedArticle(pageTitle, pageContentLen, "7News")
                ELSE None)
    /\ extractPc' = "returned"
    /\ UNCHANGED <<extractor, pageTitle, pageContentLen>>
    /\ UNCHANGED nonExtractVars

ExtractNext ==
    \/ ReturnExtraction

-----------------------------------------------------------------------------
(* Claims about the extractors.                                            *)

\* C17: an extraction result is discarded exactly when its title is empty,
\* its content is empty or its content is shorter than 100 characters; with
\* a non-empty title and at least 100 characters of content (exactly 100
\* included) both extractors return an Article.
C17_DiscardedIffShorterThan100 ==
    extractPc = "returned" =>
        /\ extractResult = None <=>
               \/ pageTitle = <<>>
               \/ pageContentLen = 0
               \/ pageContentLen < 100
        /\ (pageTitle # <<>> /\ pageContentLen >= 100) =>
               /\ extractResult.kind = "Article"
               /\ extractResult.title = pageTitle
               /\ extractResult.content_len = pageContentLen

-----------------------------------------------------------------------------
(* Specifications, one per component.                                      *)

ScrapeSpecInit ==
    /\ ScrapeInit /\ FilterIdle /\ ClusterIdle /\ HighlightsIdle /\ SnapshotIdle
    /\ EnrichIdle /\ KeywordIdle /\ ExtractIdle

SpecScrape == ScrapeSpecInit /\ [][ScrapeNext]_vars

FilterSpecInit ==
    /\ FilterInit /\ ScrapeIdle /\ ClusterIdle /\ HighlightsIdle /\ SnapshotIdle
    /\ EnrichIdle /\ KeywordIdle /\ ExtractIdle

SpecFilter == FilterSpecInit /\ [][FilterNext]_vars

ClusterSpecInit ==
    /\ ClusterInit /\ ScrapeIdle /\ FilterIdle /\ HighlightsIdle /\ SnapshotIdle
    /\ EnrichIdle /\ KeywordIdle /\ ExtractIdle

SpecCluster == ClusterSpecInit /\ [][ClusterNext]_vars

HighlightsSpecInit ==
    /\ HighlightsInit /\ ScrapeIdle /\ FilterIdle /\ ClusterIdle /\ SnapshotIdle
    /\ EnrichIdle /\ KeywordIdle /\ ExtractIdle

SpecHighlights == HighlightsSpecInit /\ [][HighlightsNext]_vars

SnapshotSpecInit ==
    /\ SnapshotInit /\ ScrapeIdle /\ FilterIdle /\ ClusterIdle /\ HighlightsIdle
    /\ EnrichIdle /\ KeywordIdle /\ ExtractIdle

SpecSnapshot == SnapshotSpecInit /\ [][SnapshotNext]_vars

EnrichSpecInit ==
    /\ EnrichInit /\ ScrapeIdle /\ FilterIdle /\ ClusterIdle /\ HighlightsIdle
    /\ SnapshotIdle /\ KeywordIdle /\ ExtractIdle

SpecEnrich == EnrichSpecInit /\ [][EnrichNext]_vars

ProcessSpecInit ==
    /\ ProcessInit /\ ScrapeIdle /\ FilterIdle /\ ClusterIdle
    /\ KeywordIdle /\ ExtractIdle

SpecProcess == ProcessSpecInit /\ [][ProcessNext]_vars

KeywordSpecInit ==
    /\ KeywordInit /\ ScrapeIdle /\ FilterIdle /\ ClusterIdle /\ HighlightsIdle
    /\ SnapshotIdle /\ EnrichIdle /\ ExtractIdle

SpecKeyword == KeywordSpecInit /\ [][KeywordNext]_vars

ExtractSpecInit ==
    /\ ExtractInit /\ ScrapeIdle /\ FilterIdle /\ ClusterIdle /\ HighlightsIdle
    /\ SnapshotIdle /\ EnrichIdle /\ KeywordIdle

SpecExtract == ExtractSpecInit /\ [][ExtractNext]_vars

====
